---- MODULE Spec2Model ----
(***************************************************************************)
(* A model of the Sonarr REST client (package sonarr): client construction *)
(* (New), the three private request builders (get, put, del) and the       *)
(* public endpoint operations built on them.                               *)
(*                                                                         *)
(* Text.  A Go string is modelled as a sequence of tokens.  A token is     *)
(* either one of the reserved characters "/", "?", "=", "&", the control   *)
(* character DEL, the scheme-and-host prefix "http://h", or a name made of *)
(* unreserved characters ("api", "series", "5", "k1", ...).  On names made *)
(* of unreserved characters url.QueryEscape and url.QueryUnescape are the  *)
(* identity, and path resolution meets no "." or ".." segment.             *)
(***************************************************************************)
EXTENDS Integers, Sequences, FiniteSets, TLC

\* ------------------------------------------------------------------ bounds

\* Longest tail of tokens that follows "http://h" in a base address.
MaxTail == 2
\* Largest identifier a caller passes.
MaxId == 2
\* Longest JSON array a server returns.
MaxItems == 2
\* Goroutines that call one client concurrently.
NumCallers == 2

\* ------------------------------------------------------------------- text

ORIGIN == "http://h"
SEP == "/"
QMARK == "?"
EQ == "="
AMP == "&"
DEL == "<DEL>"

\* strings.HasSuffix(s, t) for a one-character t.
HasSuffix(s, t) == Len(s) >= 1 /\ s[Len(s)] = t

\* strings.Index / strings.LastIndex for a one-character t, 1-based; 0: absent.
Index(s, t) ==
    IF \E i \in 1..Len(s) : s[i] = t
    THEN CHOOSE i \in 1..Len(s) : s[i] = t /\ \A j \in 1..(i - 1) : s[j] # t
    ELSE 0

LastIndex(s, t) ==
    IF \E i \in 1..Len(s) : s[i] = t
    THEN CHOOSE i \in 1..Len(s) : s[i] = t /\ \A j \in (i + 1)..Len(s) : s[j] # t
    ELSE 0

\* strconv.Itoa
Itoa(n) == ToString(n)

\* fmt.Sprintf("%s/%s", a, b)
SprintfSlash(a, b) == <<a, SEP, b>>

\* -------------------------------------------------------------------- URL

\* A nil *url.URL.
NilURL == [nil |-> TRUE, host |-> <<>>, path |-> <<>>, rawQuery |-> <<>>]

\* strings.Cut(s, t): the text before the first t (all of s when t is absent),
\* and the text after it.
CutBefore(s, t) == IF Index(s, t) = 0 THEN s ELSE SubSeq(s, 1, Index(s, t) - 1)
CutAfter(s, t) == IF Index(s, t) = 0 THEN <<>> ELSE SubSeq(s, Index(s, t) + 1, Len(s))

\* The text from the first t on (empty when t is absent).
FromFirst(s, t) == IF Index(s, t) = 0 THEN <<>> ELSE SubSeq(s, Index(s, t), Len(s))

\* url.Parse past the query: text that starts with the scheme and "//" holds
\* the host up to the next "/" and the path from there; other text is a path.
ParseHostPath(before, rawQuery) ==
    IF Len(before) >= 1 /\ before[1] = ORIGIN
    THEN [nil |-> FALSE, host |-> <<ORIGIN>> \o CutBefore(Tail(before), SEP),
          path |-> FromFirst(Tail(before), SEP), rawQuery |-> rawQuery]
    ELSE [nil |-> FALSE, host |-> <<>>, path |-> before, rawQuery |-> rawQuery]

\* url.Parse: a control character is refused; the text is cut at the first "?"
\* into the part before it and the raw query.
Parse(s) ==
    IF \E i \in 1..Len(s) : s[i] = DEL
    THEN [err |-> "invalid control character in URL", url |-> NilURL]
    ELSE [err |-> "", url |-> ParseHostPath(CutBefore(s, QMARK), CutAfter(s, QMARK))]

\* (*url.URL).String
String(u) ==
    u.host \o u.path \o (IF u.rawQuery = <<>> THEN <<>> ELSE <<QMARK>> \o u.rawQuery)

\* net/url resolvePath: a relative reference replaces what follows the last
\* "/" of the base path; the result starts with "/".
ResolvePath(base, ref) ==
    LET full == IF ref = <<>> THEN base
                ELSE IF ref[1] # SEP THEN SubSeq(base, 1, LastIndex(base, SEP)) \o ref
                ELSE ref
    IN IF full = <<>> THEN <<>>
       ELSE IF full[1] = SEP THEN full ELSE <<SEP>> \o full

\* (*url.URL).ResolveReference, for a base that is not nil.
ResolveReference(u, ref) ==
    IF ref.host # <<>>
    THEN [ref EXCEPT !.path = ResolvePath(ref.path, <<>>)]
    ELSE [nil |-> FALSE,
          host |-> u.host,
          path |-> ResolvePath(u.path, ref.path),
          rawQuery |-> IF ref.path = <<>> /\ ref.rawQuery = <<>>
                       THEN u.rawQuery ELSE ref.rawQuery]

\* ------------------------------------------------------------- url.Values

\* Every query key of the model, in the byte order Encode sorts keys in.
KeyOrder == <<"apikey", "deleteFiles", "end", "seriesId", "start">>

\* make(url.Values)
EmptyValues == [k \in {} |-> <<>>]

\* url.Values.Set
Set(v, k, x) == [j \in (DOMAIN v) \cup {k} |-> IF j = k THEN <<x>> ELSE v[j]]

RECURSIVE EncodeOne(_, _)
\* One key's "k=v" pairs, each followed by "&".
EncodeOne(k, vs) ==
    IF vs = <<>> THEN <<>> ELSE <<k, EQ, Head(vs), AMP>> \o EncodeOne(k, Tail(vs))

RECURSIVE EncodeFrom(_, _)
EncodeFrom(v, i) ==
    IF i > Len(KeyOrder) THEN <<>>
    ELSE (IF KeyOrder[i] \in DOMAIN v THEN EncodeOne(KeyOrder[i], v[KeyOrder[i]])
          ELSE <<>>) \o EncodeFrom(v, i + 1)

\* url.Values.Encode: "k=v" pairs sorted by key and joined by "&".
Encode(v) ==
    LET all == EncodeFrom(v, 1)
    IN IF all = <<>> THEN <<>> ELSE SubSeq(all, 1, Len(all) - 1)

RECURSIVE ParseQuery(_)
\* url.ParseQuery, as (*url.URL).Query calls it: the text is cut at each "&"
\* and each piece at its "="; a piece without "=" has the empty value.
ParseQuery(q) ==
    IF q = <<>> THEN EmptyValues
    ELSE LET a == Index(q, AMP)
             piece == IF a = 0 THEN q ELSE SubSeq(q, 1, a - 1)
             rest == IF a = 0 THEN <<>> ELSE SubSeq(q, a + 1, Len(q))
             e == Index(piece, EQ)
             m == ParseQuery(rest)
         IN IF piece = <<>> THEN m
            ELSE LET k == piece[1]
                     x == IF e = 0 \/ e = Len(piece) THEN "" ELSE piece[e + 1]
                     old == IF k \in DOMAIN m THEN m[k] ELSE <<>>
                 IN [j \in (DOMAIN m) \cup {k} |-> IF j = k THEN <<x>> \o old ELSE m[j]]

\* (*url.URL).Query
Query(u) == ParseQuery(u.rawQuery)

\* A url.Values argument: nil, or a map.
NilParams == [nil |-> TRUE, m |-> EmptyValues]
Params(m) == [nil |-> FALSE, m |-> m]

\* ------------------------------------------------------------------- JSON

\* An entity (Series, Episode, ...) as far as the operations read it: its id,
\* its monitored flag and the year of one of its time.Time fields.
ZeroEntity == [id |-> 0, monitored |-> FALSE, year |-> 1]

\* A message body: a JSON array or object (its elements in items), the JSON
\* null, text that is not JSON, or no body at all.
NoBody == [kind |-> "none", items |-> <<>>]

\* json.Marshal of a *Series or *Episode: every field is written; the encoding
\* of a time.Time fails when its year is outside 0..9999.
Marshal(e) ==
    IF e.year \notin 0..9999
    THEN [err |-> "json: error calling MarshalJSON for type time.Time", body |-> NoBody]
    ELSE [err |-> "", body |-> [kind |-> "object", items |-> <<e>>]]

\* json.NewDecoder(res.Body).Decode(&results) for var results []T (nil before).
DecodeSlice(body) ==
    CASE body.kind = "array" -> [value |-> body.items, err |-> ""]
      [] body.kind = "null" -> [value |-> <<>>, err |-> ""]
      [] body.kind = "object" ->
            [value |-> <<>>, err |-> "json: cannot unmarshal object into Go value"]
      [] OTHER -> [value |-> <<>>, err |-> "invalid character"]

\* json.NewDecoder(res.Body).Decode(results) for results := &T{}.
DecodeStruct(body) ==
    CASE body.kind = "object" -> [value |-> body.items, err |-> ""]
      [] body.kind = "null" -> [value |-> <<ZeroEntity>>, err |-> ""]
      [] body.kind = "array" ->
            [value |-> <<ZeroEntity>>, err |-> "json: cannot unmarshal array into Go value"]
      [] OTHER -> [value |-> <<ZeroEntity>>, err |-> "invalid character"]

\* json.NewDecoder(res.Body).Decode(&results) for results := &T{}: the JSON
\* null sets the pointer itself to nil.
DecodePointer(body) ==
    IF body.kind = "null" THEN [value |-> <<>>, err |-> ""] ELSE DecodeStruct(body)

\* -------------------------------------------------------------- transport

\* What a helper hands back: a panic, or (*http.Response, error), with the
\* requests it handed to HTTPClient.Do and the steps it took.
HelperErr(e, log) ==
    [panic |-> FALSE, err |-> e, hasBody |-> FALSE, status |-> 0, body |-> NoBody,
     reqs |-> <<>>, log |-> log]

\* s.baseURL.ResolveReference on a nil baseURL: a nil pointer dereference.
HelperPanic(log) ==
    [panic |-> TRUE, err |-> "", hasBody |-> FALSE, status |-> 0, body |-> NoBody,
     reqs |-> <<>>, log |-> log \o <<"panic">>]

\* http.NewRequest(method, urlStr, body): the URL text is parsed again.
NewRequest(method, urlStr, body) ==
    LET p == Parse(urlStr)
    IN [err |-> p.err, req |-> [method |-> method, url |-> p.url, body |-> body]]

\* A transport call that is repeated once when it fails.
DoRetries(req, o, log) ==
    IF o.fail
    THEN [panic |-> FALSE, err |-> "transport failure", hasBody |-> FALSE,
          status |-> 0, body |-> NoBody, reqs |-> <<req, req>>,
          log |-> log \o <<"do", "do">>]
    ELSE [panic |-> FALSE, err |-> "", hasBody |-> TRUE, status |-> o.status,
          body |-> o.body, reqs |-> <<req>>, log |-> log \o <<"do">>]

\* s.HTTPClient.Do(req): one exchange, which fails or gives a response whose
\* body is open.
Do(req, o, log) ==
    IF o.fail
    THEN [panic |-> FALSE, err |-> "transport failure", hasBody |-> FALSE,
          status |-> 0, body |-> NoBody, reqs |-> <<req>>, log |-> log \o <<"do">>]
    ELSE [panic |-> FALSE, err |-> "", hasBody |-> TRUE, status |-> o.status,
          body |-> o.body, reqs |-> <<req>>, log |-> log \o <<"do">>]

\* ---------------------------------------------------------------- helpers

\* get that leaves a caller-supplied apikey alone.
getKeepsCallerKey(s, endpoint, params, o) ==
    LET rel == Parse(endpoint)
    IN IF rel.err # "" THEN HelperErr(rel.err, <<>>)
       ELSE IF s.baseURL.nil THEN HelperPanic(<<>>)
       ELSE LET resolved == ResolveReference(s.baseURL, rel.url)
                p == IF params.nil THEN Query(resolved) ELSE params.m
                endpointURL == [resolved EXCEPT
                                   !.rawQuery = Encode(IF "apikey" \in DOMAIN p THEN p
                                                       ELSE Set(p, "apikey", s.apiKey))]
                r == NewRequest("GET", String(endpointURL), NoBody)
            IN IF r.err # "" THEN HelperErr(r.err, <<>>) ELSE Do(r.req, o, <<>>)

get(s, endpoint, params, o) ==
    LET rel == Parse(endpoint)
    IN IF rel.err # "" THEN HelperErr(rel.err, <<>>)
       ELSE IF s.baseURL.nil THEN HelperPanic(<<>>)
       ELSE LET resolved == ResolveReference(s.baseURL, rel.url)
                p == IF params.nil THEN Query(resolved) ELSE params.m
                endpointURL == [resolved EXCEPT
                                   !.rawQuery = Encode(Set(p, "apikey", s.apiKey))]
                r == NewRequest("GET", String(endpointURL), NoBody)
            IN IF r.err # "" THEN HelperErr(r.err, <<>>) ELSE Do(r.req, o, <<>>)

\* put that drops the serialization error (body, _ := json.Marshal(payload)).
putIgnoresMarshalError(s, endpoint, payload, o) ==
    LET m == Marshal(payload)
        rel == Parse(endpoint)
    IN IF rel.err # "" THEN HelperErr(rel.err, <<"marshal">>)
       ELSE IF s.baseURL.nil THEN HelperPanic(<<"marshal">>)
       ELSE LET resolved == ResolveReference(s.baseURL, rel.url)
                endpointURL == [resolved EXCEPT
                                   !.rawQuery = Encode(Set(Query(resolved), "apikey",
                                                           s.apiKey))]
                r == NewRequest("PUT", String(endpointURL), m.body)
            IN IF r.err # "" THEN HelperErr(r.err, <<"marshal">>)
               ELSE Do(r.req, o, <<"marshal">>)

put(s, endpoint, payload, o) ==
    LET m == Marshal(payload)
        rel == Parse(endpoint)
    IN IF m.err # "" THEN HelperErr(m.err, <<"marshal">>)
       ELSE IF rel.err # "" THEN HelperErr(rel.err, <<"marshal">>)
       ELSE IF s.baseURL.nil THEN HelperPanic(<<"marshal">>)
       ELSE LET resolved == ResolveReference(s.baseURL, rel.url)
                endpointURL == [resolved EXCEPT
                                   !.rawQuery = Encode(Set(Query(resolved), "apikey",
                                                           s.apiKey))]
                r == NewRequest("PUT", String(endpointURL), m.body)
            IN IF r.err # "" THEN HelperErr(r.err, <<"marshal">>)
               ELSE Do(r.req, o, <<"marshal">>)

del(s, endpoint, params, o) ==
    LET rel == Parse(endpoint)
    IN IF rel.err # "" THEN HelperErr(rel.err, <<>>)
       ELSE IF s.baseURL.nil THEN HelperPanic(<<>>)
       ELSE LET resolved == ResolveReference(s.baseURL, rel.url)
                p == IF params.nil THEN Query(resolved) ELSE params.m
                endpointURL == [resolved EXCEPT
                                   !.rawQuery = Encode(Set(p, "apikey", s.apiKey))]
                r == NewRequest("DELETE", String(endpointURL), NoBody)
            IN IF r.err # "" THEN HelperErr(r.err, <<>>) ELSE Do(r.req, o, <<>>)

\* ----------------------------------------------------------- construction

\* The &Sonarr{} that New returns beside an error.
ZeroSonarr == [baseURL |-> NilURL, apiKey |-> ""]

\* New without the normalization of the address.
NormalizeURLNever(apiURL) == apiURL

\* New's normalization of the address.
NormalizeURL(apiURL) ==
    IF ~HasSuffix(apiURL, SEP) THEN apiURL \o <<SEP>> ELSE apiURL

\* New without the check of the key.
NewNoKeyCheck(apiURL, apiKey) ==
    IF apiURL = <<>> THEN [s |-> ZeroSonarr, err |-> "apiURL is required"]
    ELSE LET p == Parse(NormalizeURL(apiURL))
         IN IF p.err # ""
            THEN [s |-> ZeroSonarr, err |-> "Failed to parse baseURL"]
            ELSE [s |-> [baseURL |-> p.url, apiKey |-> apiKey], err |-> ""]

New(apiURL, apiKey) ==
    IF apiURL = <<>> THEN [s |-> ZeroSonarr, err |-> "apiURL is required"]
    ELSE IF apiKey = "" THEN [s |-> ZeroSonarr, err |-> "apiKey is required"]
    ELSE LET p == Parse(NormalizeURL(apiURL))
         IN IF p.err # ""
            THEN [s |-> ZeroSonarr, err |-> "Failed to parse baseURL"]
            ELSE [s |-> [baseURL |-> p.url, apiKey |-> apiKey], err |-> ""]

\* ------------------------------------------------------------- operations

calendarEndpoint == <<"calendar">>
diskSpaceEndpoint == <<"diskspace">>
episodeEndpoint == "episode"
episodeFileEndpoint == "episodefile"
seriesEndpoint == "series"
systemStatusEndpoint == <<"system", SEP, "status">>
tagEndpoint == <<"tag">>

\* What an operation hands back to its caller: a panic, or (results, error),
\* with the requests it had the transport send and the steps it took.
Out(panic, result, err, reqs, log) ==
    [panic |-> panic, result |-> result, err |-> err, reqs |-> reqs, log |-> log]

\* An operation's return before any helper is called (a failed validation).
Invalid(result, err) == Out(FALSE, result, err, <<>>, <<"return">>)

\* The tail of a list operation that treats a status of 400 or more as an error.
ReturnSliceChecksStatus(r) ==
    IF r.panic THEN Out(TRUE, <<>>, "", r.reqs, r.log)
    ELSE IF r.err # "" THEN Out(FALSE, <<>>, r.err, r.reqs, r.log \o <<"return">>)
    ELSE IF r.status >= 400
    THEN Out(FALSE, <<>>, "unexpected status", r.reqs, r.log \o <<"close", "return">>)
    ELSE LET d == DecodeSlice(r.body)
         IN Out(FALSE, d.value, d.err, r.reqs, r.log \o <<"decode", "close", "return">>)

\* The common tail of the list operations: the helper's error is returned; else
\* the body is decoded into the nil slice and closed (the deferred Close).
ReturnSlice(r) ==
    IF r.panic THEN Out(TRUE, <<>>, "", r.reqs, r.log)
    ELSE IF r.err # "" THEN Out(FALSE, <<>>, r.err, r.reqs, r.log \o <<"return">>)
    ELSE LET d == DecodeSlice(r.body)
         IN Out(FALSE, d.value, d.err, r.reqs, r.log \o <<"decode", "close", "return">>)

\* The tail of a single-entity operation that closes the body only after a
\* successful decode.
ReturnStructLeaks(r) ==
    IF r.panic THEN Out(TRUE, <<>>, "", r.reqs, r.log)
    ELSE IF r.err # ""
    THEN Out(FALSE, <<ZeroEntity>>, r.err, r.reqs, r.log \o <<"return">>)
    ELSE LET d == DecodeStruct(r.body)
         IN Out(FALSE, d.value, d.err, r.reqs,
                r.log \o (IF d.err # "" THEN <<"decode", "return">>
                          ELSE <<"decode", "close", "return">>))

\* The common tail of the single-entity operations, results := &T{}.
ReturnStruct(r) ==
    IF r.panic THEN Out(TRUE, <<>>, "", r.reqs, r.log)
    ELSE IF r.err # ""
    THEN Out(FALSE, <<ZeroEntity>>, r.err, r.reqs, r.log \o <<"return">>)
    ELSE LET d == DecodeStruct(r.body)
         IN Out(FALSE, d.value, d.err, r.reqs, r.log \o <<"decode", "close", "return">>)

\* GetCalendar that sets start and end whether or not they are empty.
GetCalendarAlwaysSets(s, start, end, o) ==
    ReturnSlice(get(s, calendarEndpoint,
                    Params(Set(Set(EmptyValues, "start", start), "end", end)), o))

GetCalendar(s, start, end, o) ==
    LET p1 == IF start # "" THEN Set(EmptyValues, "start", start) ELSE EmptyValues
        p2 == IF end # "" THEN Set(p1, "end", end) ELSE p1
    IN ReturnSlice(get(s, calendarEndpoint, Params(p2), o))

GetDiskSpace(s, o) == ReturnSlice(get(s, diskSpaceEndpoint, NilParams, o))

GetEpisodes(s, seriesID, o) ==
    IF seriesID <= 0 THEN Invalid(<<>>, "seriesID must be a positive integer")
    ELSE ReturnSlice(get(s, <<episodeEndpoint>>,
                         Params(Set(EmptyValues, "seriesId", Itoa(seriesID))), o))

GetEpisode(s, episodeID, o) ==
    IF episodeID <= 0
    THEN Invalid(<<ZeroEntity>>, "episodeID must be a positive integer")
    ELSE ReturnStruct(get(s, SprintfSlash(episodeEndpoint, Itoa(episodeID)),
                          NilParams, o))

UpdateEpisode(s, ep, o) ==
    ReturnStruct(put(s, SprintfSlash(episodeEndpoint, Itoa(ep.id)), ep, o))

GetEpisodeFiles(s, seriesID, o) ==
    IF seriesID <= 0 THEN Invalid(<<>>, "seriesID must be a positive integer")
    ELSE ReturnSlice(get(s, <<episodeFileEndpoint>>,
                         Params(Set(EmptyValues, "seriesId", Itoa(seriesID))), o))

\* GetEpisodeFile with the identifier check off by one (episodeFileID < 0).
GetEpisodeFileOffByOne(s, episodeFileID, o) ==
    IF episodeFileID < 0
    THEN Invalid(<<ZeroEntity>>, "episodeFileID must be a positive integer")
    ELSE ReturnStruct(get(s, SprintfSlash(episodeFileEndpoint, Itoa(episodeFileID)),
                          NilParams, o))

GetEpisodeFile(s, episodeFileID, o) ==
    IF episodeFileID <= 0
    THEN Invalid(<<ZeroEntity>>, "episodeFileID must be a positive integer")
    ELSE ReturnStruct(get(s, SprintfSlash(episodeFileEndpoint, Itoa(episodeFileID)),
                          NilParams, o))

DeleteEpisodeFile(s, episodeFileID, o) ==
    IF episodeFileID <= 0
    THEN Invalid(<<ZeroEntity>>, "episodeFileID must be a positive integer")
    ELSE ReturnStruct(del(s, SprintfSlash(episodeFileEndpoint, Itoa(episodeFileID)),
                          NilParams, o))

GetAllSeries(s, o) == ReturnSlice(get(s, <<seriesEndpoint>>, NilParams, o))

GetSeries(s, seriesID, o) ==
    IF seriesID <= 0
    THEN Invalid(<<ZeroEntity>>, "seriesID must be a positive integer")
    ELSE ReturnStruct(get(s, SprintfSlash(seriesEndpoint, Itoa(seriesID)),
                          NilParams, o))

\* UpdateSeries that rejects a non-positive identifier as GetSeries does.
UpdateSeriesValidates(s, ser, o) ==
    IF ser.id <= 0
    THEN Invalid(<<ZeroEntity>>, "seriesID must be a positive integer")
    ELSE ReturnStruct(put(s, SprintfSlash(seriesEndpoint, Itoa(ser.id)), ser, o))

UpdateSeries(s, ser, o) ==
    ReturnStruct(put(s, SprintfSlash(seriesEndpoint, Itoa(ser.id)), ser, o))

\* DeleteSeries that always sends the flag (strconv.FormatBool(deleteFiles)).
DeleteSeriesAlwaysFlag(s, seriesID, deleteFiles, o) ==
    IF seriesID <= 0
    THEN Invalid(<<ZeroEntity>>, "seriesID must be a positive integer")
    ELSE LET params == Set(EmptyValues, "deleteFiles",
                           IF deleteFiles THEN "true" ELSE "false")
         IN ReturnStruct(del(s, SprintfSlash(seriesEndpoint, Itoa(seriesID)),
                             Params(params), o))

DeleteSeries(s, seriesID, deleteFiles, o) ==
    IF seriesID <= 0
    THEN Invalid(<<ZeroEntity>>, "seriesID must be a positive integer")
    ELSE LET params == IF deleteFiles THEN Set(EmptyValues, "deleteFiles", "true")
                       ELSE EmptyValues
         IN ReturnStruct(del(s, SprintfSlash(seriesEndpoint, Itoa(seriesID)),
                             Params(params), o))

GetSystemStatus(s, o) ==
    LET r == get(s, systemStatusEndpoint, NilParams, o)
    IN IF r.panic THEN Out(TRUE, <<>>, "", r.reqs, r.log)
       ELSE IF r.err # ""
       THEN Out(FALSE, <<ZeroEntity>>, r.err, r.reqs, r.log \o <<"return">>)
       ELSE LET d == DecodePointer(r.body)
            IN Out(FALSE, d.value, d.err, r.reqs,
                   r.log \o <<"decode", "close", "return">>)

GetTags(s, o) == ReturnSlice(get(s, tagEndpoint, NilParams, o))

\* ----------------------------------------------------------------- inputs

RECURSIVE SeqsUpTo(_, _)
\* The sequences over S of length at most n.
SeqsUpTo(S, n) ==
    IF n = 0 THEN {<<>>}
    ELSE LET shorter == SeqsUpTo(S, n - 1)
         IN shorter \cup {Append(t, x) : t \in shorter, x \in S}

\* Base addresses: the empty one, and "http://h" followed by a short tail.
Addresses ==
    {<<>>} \cup {<<ORIGIN>> \o t : t \in SeqsUpTo({SEP, "api", QMARK, DEL}, MaxTail)}

ApiKeys == {"", "k1"}

\* Identifiers a caller passes.
Ids == (-1)..MaxId

\* The start and end arguments of GetCalendar.
Dates == {"", "2024-01-01"}

\* Entities a caller passes to an update.
PayloadEntities == [id : Ids, monitored : BOOLEAN, year : {2020, 10000}]

\* Entities a server returns.
ResponseEntities == [id : {1, 2}, monitored : {TRUE}, year : {2020}]

Bodies ==
    {[kind |-> "array", items |-> a] : a \in SeqsUpTo(ResponseEntities, MaxItems)}
    \cup {[kind |-> "object", items |-> <<e>>] : e \in ResponseEntities}
    \cup {[kind |-> "null", items |-> <<>>], [kind |-> "invalid", items |-> <<>>]}

Statuses == {200, 404, 500}

\* What the transport does with a request: it fails, or answers.
Outcomes ==
    {[fail |-> TRUE, status |-> 0, body |-> NoBody]}
    \cup {[fail |-> FALSE, status |-> st, body |-> b] : st \in Statuses, b \in Bodies}

\* Endpoints and parameter sets handed to the helpers directly.
HelperEndpoints ==
    {<<"series">>, <<"series", SEP, "1">>, <<"series", QMARK, "apikey", EQ, "evil">>,
     <<"series", QMARK, "seriesId", EQ, "1">>, <<"series", DEL>>}

HelperParams ==
    {NilParams, Params(EmptyValues),
     Params(Set(EmptyValues, "apikey", "evil")),
     Params([k \in {"apikey"} |-> <<"evil", "k2">>]),
     Params(Set(EmptyValues, "seriesId", "1"))}

HelperOutcomes ==
    {o \in Outcomes : o.fail \/ (o.status = 200 /\ o.body.kind \in {"object", "invalid"})}

\* ------------------------------------------------------------------ state

VARIABLES
    constructed,  \* whether New has been called
    newArgs,      \* the arguments New was called with
    newErr,       \* the error New returned ("": nil)
    client,       \* the *Sonarr New returned
    call,         \* the last call on the client: operation, arguments, what the
                  \* transport did, and what came back
    calls         \* under concurrent callers: each caller's call, step by step

vars == <<constructed, newArgs, newErr, client, call, calls>>

NoArg ==
    [id |-> 0, flag |-> FALSE, start |-> "", end |-> "", entity |-> ZeroEntity,
     endpoint |-> <<>>, params |-> NilParams]

NoOutcome == [fail |-> TRUE, status |-> 0, body |-> NoBody]

Idle == [op |-> "idle", arg |-> NoArg, net |-> NoOutcome,
         out |-> Out(FALSE, <<>>, "", <<>>, <<>>)]

\* The goroutines that call the client concurrently.
Callers == 1..NumCallers

\* A caller between two calls.
IdleCaller == [pc |-> "idle", op |-> "idle", arg |-> NoArg, reqs |-> <<>>, err |-> ""]

\* A helper that works on s.baseURL itself (endpointURL := s.baseURL) instead
\* of on a URL of its own.
SonarrAfterAliased(s, reqs) ==
    IF reqs = <<>> THEN s ELSE [s EXCEPT !.baseURL = reqs[1].url]

\* The Sonarr after a helper built and sent reqs for it: ResolveReference gives
\* the helper a URL of its own and the query is written to that one, so
\* *s.baseURL and s.apiKey keep their values.
SonarrAfter(s, reqs) == s

Init ==
    /\ constructed = FALSE
    /\ newArgs = [apiURL |-> <<>>, apiKey |-> ""]
    /\ newErr = ""
    /\ client = ZeroSonarr
    /\ call = Idle
    /\ calls = [c \in Callers |-> IdleCaller]

CallNew ==
    /\ ~constructed
    /\ \E apiURL \in Addresses, apiKey \in ApiKeys :
          /\ newArgs' = [apiURL |-> apiURL, apiKey |-> apiKey]
          /\ newErr' = New(apiURL, apiKey).err
          /\ client' = New(apiURL, apiKey).s
    /\ constructed' = TRUE
    /\ UNCHANGED <<call, calls>>

\* The client has been constructed and no call is under way.
Ready == constructed /\ call.op = "idle"

\* A call of an operation on the client, from start to return.
Invoke(op, arg, o, out) ==
    /\ call' = [op |-> op, arg |-> arg, net |-> o, out |-> out]
    /\ client' = SonarrAfter(client, out.reqs)
    /\ UNCHANGED <<constructed, newArgs, newErr, calls>>

CallGetCalendar ==
    /\ Ready
    /\ \E start \in Dates, end \in Dates, o \in Outcomes :
           Invoke("GetCalendar", [NoArg EXCEPT !.start = start, !.end = end], o,
                  GetCalendar(client, start, end, o))

CallGetDiskSpace ==
    /\ Ready
    /\ \E o \in Outcomes : Invoke("GetDiskSpace", NoArg, o, GetDiskSpace(client, o))

CallGetEpisodes ==
    /\ Ready
    /\ \E id \in Ids, o \in Outcomes :
           Invoke("GetEpisodes", [NoArg EXCEPT !.id = id], o, GetEpisodes(client, id, o))

CallGetEpisode ==
    /\ Ready
    /\ \E id \in Ids, o \in Outcomes :
           Invoke("GetEpisode", [NoArg EXCEPT !.id = id], o, GetEpisode(client, id, o))

CallUpdateEpisode ==
    /\ Ready
    /\ \E ep \in PayloadEntities, o \in Outcomes :
           Invoke("UpdateEpisode", [NoArg EXCEPT !.id = ep.id, !.entity = ep], o,
                  UpdateEpisode(client, ep, o))

CallGetEpisodeFiles ==
    /\ Ready
    /\ \E id \in Ids, o \in Outcomes :
           Invoke("GetEpisodeFiles", [NoArg EXCEPT !.id = id], o,
                  GetEpisodeFiles(client, id, o))

CallGetEpisodeFile ==
    /\ Ready
    /\ \E id \in Ids, o \in Outcomes :
           Invoke("GetEpisodeFile", [NoArg EXCEPT !.id = id], o,
                  GetEpisodeFile(client, id, o))

CallDeleteEpisodeFile ==
    /\ Ready
    /\ \E id \in Ids, o \in Outcomes :
           Invoke("DeleteEpisodeFile", [NoArg EXCEPT !.id = id], o,
                  DeleteEpisodeFile(client, id, o))

CallGetAllSeries ==
    /\ Ready
    /\ \E o \in Outcomes : Invoke("GetAllSeries", NoArg, o, GetAllSeries(client, o))

CallGetSeries ==
    /\ Ready
    /\ \E id \in Ids, o \in Outcomes :
           Invoke("GetSeries", [NoArg EXCEPT !.id = id], o, GetSeries(client, id, o))

CallUpdateSeries ==
    /\ Ready
    /\ \E ser \in PayloadEntities, o \in Outcomes :
           Invoke("UpdateSeries", [NoArg EXCEPT !.id = ser.id, !.entity = ser], o,
                  UpdateSeries(client, ser, o))

CallDeleteSeries ==
    /\ Ready
    /\ \E id \in Ids, deleteFiles \in BOOLEAN, o \in Outcomes :
           Invoke("DeleteSeries", [NoArg EXCEPT !.id = id, !.flag = deleteFiles], o,
                  DeleteSeries(client, id, deleteFiles, o))

CallGetSystemStatus ==
    /\ Ready
    /\ \E o \in Outcomes : Invoke("GetSystemStatus", NoArg, o, GetSystemStatus(client, o))

CallGetTags ==
    /\ Ready
    /\ \E o \in Outcomes : Invoke("GetTags", NoArg, o, GetTags(client, o))

\* The caller takes the results; the client is ready for the next call.
Return ==
    /\ call.op # "idle"
    /\ call' = Idle
    /\ UNCHANGED <<constructed, newArgs, newErr, client, calls>>

Next ==
    \/ CallNew
    \/ CallGetCalendar
    \/ CallGetDiskSpace
    \/ CallGetEpisodes
    \/ CallGetEpisode
    \/ CallUpdateEpisode
    \/ CallGetEpisodeFiles
    \/ CallGetEpisodeFile
    \/ CallDeleteEpisodeFile
    \/ CallGetAllSeries
    \/ CallGetSeries
    \/ CallUpdateSeries
    \/ CallDeleteSeries
    \/ CallGetSystemStatus
    \/ CallGetTags
    \/ Return

Spec == Init /\ [][Next]_vars

\* The helpers called directly (as code inside the package can), with any
\* endpoint and parameter set; the caller of a helper here does nothing more.
HelperOut(r) == Out(r.panic, <<>>, r.err, r.reqs, r.log)

CallGet ==
    /\ Ready
    /\ \E endpoint \in HelperEndpoints, params \in HelperParams, o \in HelperOutcomes :
           Invoke("get", [NoArg EXCEPT !.endpoint = endpoint, !.params = params], o,
                  HelperOut(get(client, endpoint, params, o)))

CallPut ==
    /\ Ready
    /\ \E endpoint \in HelperEndpoints, payload \in PayloadEntities, o \in HelperOutcomes :
           Invoke("put", [NoArg EXCEPT !.endpoint = endpoint, !.entity = payload], o,
                  HelperOut(put(client, endpoint, payload, o)))

CallDel ==
    /\ Ready
    /\ \E endpoint \in HelperEndpoints, params \in HelperParams, o \in HelperOutcomes :
           Invoke("del", [NoArg EXCEPT !.endpoint = endpoint, !.params = params], o,
                  HelperOut(del(client, endpoint, params, o)))

HelperNext == Next \/ CallGet \/ CallPut \/ CallDel

HelperSpec == Init /\ [][HelperNext]_vars

\* ----------------------------------------------------------------- claims

\* -------------------------------------------------------- concurrent callers

\* The operation op called on s with the arguments arg, under the transport
\* outcome o.
OpOut(op, s, arg, o) ==
    CASE op = "GetCalendar" -> GetCalendar(s, arg.start, arg.end, o)
      [] op = "GetDiskSpace" -> GetDiskSpace(s, o)
      [] op = "GetEpisodes" -> GetEpisodes(s, arg.id, o)
      [] op = "GetEpisode" -> GetEpisode(s, arg.id, o)
      [] op = "UpdateEpisode" -> UpdateEpisode(s, arg.entity, o)
      [] op = "GetEpisodeFiles" -> GetEpisodeFiles(s, arg.id, o)
      [] op = "GetEpisodeFile" -> GetEpisodeFile(s, arg.id, o)
      [] op = "DeleteEpisodeFile" -> DeleteEpisodeFile(s, arg.id, o)
      [] op = "GetAllSeries" -> GetAllSeries(s, o)
      [] op = "GetSeries" -> GetSeries(s, arg.id, o)
      [] op = "UpdateSeries" -> UpdateSeries(s, arg.entity, o)
      [] op = "DeleteSeries" -> DeleteSeries(s, arg.id, arg.flag, o)
      [] op = "GetSystemStatus" -> GetSystemStatus(s, o)
      [] OTHER -> GetTags(s, o)

\* What an operation does up to the point where it waits for the transport:
\* the requests it built and sent are the same whatever the transport answers.
Built(op, s, arg) == OpOut(op, s, arg, NoOutcome)

\* The addresses and the key concurrent callers' clients are made of.
ConcAddresses == {<<>>, <<ORIGIN, SEP, "api">>, <<ORIGIN, QMARK, "api">>}

\* The calls concurrent callers make: every operation with arguments it
\* accepts, three of them also with the identifier 0 they reject, the updates
\* also with an entity that does not serialize.
ConcCalls ==
    {[op |-> op, arg |-> NoArg] :
        op \in {"GetDiskSpace", "GetAllSeries", "GetSystemStatus", "GetTags"}}
    \cup {[op |-> "GetCalendar", arg |-> [NoArg EXCEPT !.start = "2024-01-01"]]}
    \cup {[op |-> op, arg |-> [NoArg EXCEPT !.id = 1, !.flag = (op = "DeleteSeries")]] :
            op \in {"GetEpisodes", "GetEpisodeFiles", "DeleteEpisodeFile",
                    "DeleteSeries", "GetEpisode", "GetEpisodeFile", "GetSeries"}}
    \cup {[op |-> op, arg |-> NoArg] :
            op \in {"DeleteSeries", "GetEpisodeFile", "GetSeries"}}
    \cup {[op |-> op, arg |-> [NoArg EXCEPT !.id = e.id, !.entity = e]] :
            op \in {"UpdateSeries", "UpdateEpisode"},
            e \in {[id |-> 1, monitored |-> TRUE, year |-> 2020],
                   [id |-> 0, monitored |-> FALSE, year |-> 10000]}}

\* What the transport answers a concurrent caller.
ConcOutcomes ==
    {o \in Outcomes : o.fail \/ (o.status = 200 /\ o.body.kind = "object"
                                 /\ o.body.items[1].id = 1)}

\* A panic ends the process: every goroutine stops.
Panicked == \E c \in Callers : calls[c].pc = "panic"

ConcNew ==
    /\ ~constructed
    /\ \E apiURL \in ConcAddresses :
          /\ newArgs' = [apiURL |-> apiURL, apiKey |-> "k1"]
          /\ newErr' = New(apiURL, "k1").err
          /\ client' = New(apiURL, "k1").s
    /\ constructed' = TRUE
    /\ UNCHANGED <<call, calls>>

\* Caller c after its operation k has built b: waiting for the transport,
\* back with an early error, or stopped in a panic.
Entered(k, b) ==
    [pc |-> IF b.panic THEN "panic" ELSE IF b.reqs = <<>> THEN "done" ELSE "sent",
     op |-> k.op, arg |-> k.arg, reqs |-> b.reqs,
     err |-> IF b.reqs = <<>> THEN b.err ELSE ""]

\* Caller c enters an operation: the operation checks its arguments, has its
\* helper build the request and hands it to the transport, or returns early.
Start(c) ==
    /\ constructed
    /\ ~Panicked
    /\ calls[c].pc = "idle"
    /\ \E k \in ConcCalls :
          /\ calls' = [calls EXCEPT ![c] = Entered(k, Built(k.op, client, k.arg))]
          /\ client' = SonarrAfter(client, calls'[c].reqs)
    /\ UNCHANGED <<constructed, newArgs, newErr, call>>

\* The transport answers caller c, whose operation decodes, closes the body
\* and has its results ready.
Respond(c) ==
    /\ ~Panicked
    /\ calls[c].pc = "sent"
    /\ \E o \in ConcOutcomes :
          calls' = [calls EXCEPT ![c].pc = "done",
                                 ![c].err = OpOut(calls[c].op, client, calls[c].arg, o).err]
    /\ UNCHANGED <<constructed, newArgs, newErr, client, call>>

\* Caller c takes the results.
Leave(c) ==
    /\ ~Panicked
    /\ calls[c].pc = "done"
    /\ calls' = [calls EXCEPT ![c] = IdleCaller]
    /\ UNCHANGED <<constructed, newArgs, newErr, client, call>>

ConcNext ==
    \/ ConcNew
    \/ \E c \in Callers : Start(c)
    \/ \E c \in Callers : Respond(c)
    \/ \E c \in Callers : Leave(c)

ConcSpec == Init /\ [][ConcNext]_vars

PublicOps ==
    {"GetCalendar", "GetDiskSpace", "GetEpisodes", "GetEpisode", "UpdateEpisode",
     "GetEpisodeFiles", "GetEpisodeFile", "DeleteEpisodeFile", "GetAllSeries",
     "GetSeries", "UpdateSeries", "DeleteSeries", "GetSystemStatus", "GetTags"}

\* The operations that take an identifier and check it.
ValidatingOps ==
    {"GetEpisodes", "GetEpisodeFiles", "DeleteEpisodeFile", "DeleteSeries",
     "GetEpisode", "GetEpisodeFile", "GetSeries"}

\* The validation error of each of them.
ValidationError(op) ==
    CASE op \in {"GetEpisodes", "GetEpisodeFiles", "GetSeries", "DeleteSeries"} ->
            "seriesID must be a positive integer"
      [] op = "GetEpisode" -> "episodeID must be a positive integer"
      [] OTHER -> "episodeFileID must be a positive integer"

\* New gave a client and no error.
Usable == constructed /\ newErr = ""

\* How often event e is in log.
Count(log, e) == Cardinality({i \in 1..Len(log) : log[i] = e})

\* C1: in each of the seven operations that take an identifier, an identifier
\* <= 0 gives the operation's validation error and no request reaches the
\* transport; an identifier > 0 passes the validation and, on a client that New
\* constructed, exactly one request is handed to the transport.
C1_ValidationBeforeNetwork ==
    call.op \in ValidatingOps =>
        /\ call.arg.id <= 0 =>
              /\ call.out.err = ValidationError(call.op)
              /\ call.out.reqs = <<>>
              /\ Count(call.out.log, "do") = 0
              /\ ~call.out.panic
        /\ call.arg.id > 0 =>
              /\ call.out.err # ValidationError(call.op)
              /\ Usable => Len(call.out.reqs) = 1 /\ Count(call.out.log, "do") = 1

\* C1's case: GetEpisodeFile(0) on a usable client came back with the
\* validation error and nothing sent.
C1_Witness ==
    /\ Usable
    /\ call.op = "GetEpisodeFile"
    /\ call.arg.id = 0
    /\ call.out.err = "episodeFileID must be a positive integer"
    /\ call.out.reqs = <<>>

\* C2: every request a helper or an operation hands to the transport has the
\* query parameter apikey with exactly one value, the key the client was
\* constructed with, whatever the caller's parameter set or the endpoint's own
\* query held.
C2_ApiKeyAlwaysSet ==
    \A i \in 1..Len(call.out.reqs) :
        LET q == Query(call.out.reqs[i].url)
        IN /\ "apikey" \in DOMAIN q
           /\ q["apikey"] = <<newArgs.apiKey>>
           /\ newArgs.apiKey # ""

\* C2's case: get was called with a parameter set that holds another apikey,
\* and its request went out.
C2_Witness ==
    /\ call.op = "get"
    /\ ~call.arg.params.nil
    /\ "apikey" \in DOMAIN call.arg.params.m
    /\ call.arg.params.m["apikey"] = <<"evil", "k2">>
    /\ Len(call.out.reqs) = 1

\* C3: New with an empty address or an empty key returns an error (the address
\* error when the address is empty, the key error when only the key is) and a
\* client with no base address and no key; no call on that client hands a
\* request to the transport.
C3_FailedNewUnusable ==
    (constructed /\ (newArgs.apiURL = <<>> \/ newArgs.apiKey = "")) =>
        /\ newErr = IF newArgs.apiURL = <<>> THEN "apiURL is required"
                    ELSE "apiKey is required"
        /\ client.baseURL.nil
        /\ client.apiKey = ""
        /\ call.out.reqs = <<>>
        /\ Count(call.out.log, "do") = 0

\* C3's case: New was given an address and an empty key, and GetSeries(1) on
\* what it returned panicked without a request.
C3_Witness ==
    /\ constructed
    /\ newArgs.apiURL # <<>>
    /\ newArgs.apiKey = ""
    /\ newErr = "apiKey is required"
    /\ call.op = "GetSeries"
    /\ call.arg.id = 1
    /\ call.out.panic

\* Whether text ends in two separators or more.
EndsInTwo(s) == Len(s) >= 2 /\ s[Len(s)] = SEP /\ s[Len(s) - 1] = SEP

\* C4 as stated: for every address New accepts, the path that endpoints are
\* resolved against ends in exactly one separator.
C4_Original ==
    Usable => /\ HasSuffix(client.baseURL.path, SEP)
              /\ ~EndsInTwo(client.baseURL.path)

\* C4, amended: for every address New accepts, the address New parses and
\* stores ends in a separator; an address that lacks it gets exactly one
\* appended and an address that ends in one is stored unchanged.  The stored
\* base's path ends in that separator when the address has no query part, and
\* in exactly one unless the given address already ended in several.
C4_TrailingSeparator ==
    Usable =>
        LET a == newArgs.apiURL
            stored == String(client.baseURL)
        IN /\ HasSuffix(stored, SEP)
           /\ ~HasSuffix(a, SEP) => stored = a \o <<SEP>>
           /\ HasSuffix(a, SEP) => stored = a
           /\ Index(a, QMARK) = 0 =>
                 /\ HasSuffix(client.baseURL.path, SEP)
                 /\ ~EndsInTwo(a) => ~EndsInTwo(client.baseURL.path)

\* C4's case: New accepted an address without a trailing separator and the
\* stored base path ends in exactly one.
C4_Witness ==
    /\ Usable
    /\ newArgs.apiURL = <<ORIGIN, SEP, "api">>
    /\ client.baseURL.path = <<SEP, "api", SEP>>

\* The response bodies a call obtained, and those it closed.
Opened(c) == IF c.net.fail THEN 0 ELSE Count(c.out.log, "do")
Closed(c) == Count(c.out.log, "close")

\* C5: in every public operation, a call that obtained a response closes its
\* body exactly once, before it returns, whatever the status and whether or
\* not the decode succeeded; a call that obtained none closes nothing and
\* leaves nothing open.
C5_BodyClosedOnce ==
    call.op \in PublicOps =>
        /\ Closed(call) = Opened(call)
        /\ Opened(call) <= 1
        /\ Opened(call) = 1 =>
              /\ call.out.log[Len(call.out.log)] = "return"
              /\ call.out.log[Len(call.out.log) - 1] = "close"

\* C5's case: a single-entity operation got a 404 whose body does not decode,
\* and closed it.
C5_Witness ==
    /\ call.op = "GetSeries"
    /\ ~call.net.fail
    /\ call.net.status = 404
    /\ call.net.body.kind = "invalid"
    /\ call.out.err # ""
    /\ Closed(call) = 1

\* C6: in put, and so in UpdateSeries and UpdateEpisode, the payload is
\* serialized first: a serialization failure is the error returned, whatever
\* else is wrong, and no request is sent; a request is sent only after the
\* serialization, with the serialized payload as its body.
C6_SerializeFirst ==
    call.op \in {"put", "UpdateSeries", "UpdateEpisode"} =>
        /\ Marshal(call.arg.entity).err # "" =>
              /\ call.out.err = Marshal(call.arg.entity).err
              /\ call.out.reqs = <<>>
              /\ Count(call.out.log, "do") = 0
        /\ \A i \in 1..Len(call.out.log) :
              call.out.log[i] = "do" => i > 1 /\ call.out.log[1] = "marshal"
        /\ \A i \in 1..Len(call.out.reqs) :
              /\ Marshal(call.arg.entity).err = ""
              /\ call.out.reqs[i].body = Marshal(call.arg.entity).body
              /\ call.out.reqs[i].body.items = <<call.arg.entity>>

\* C6's case: put was given an endpoint that does not parse and a payload that
\* does not serialize, and returned the serialization error.
C6_Witness ==
    /\ Usable
    /\ call.op = "put"
    /\ call.arg.endpoint = <<"series", DEL>>
    /\ call.arg.entity.year = 10000
    /\ call.out.err = "json: error calling MarshalJSON for type time.Time"
    /\ call.out.reqs = <<>>

\* The operations that decode into a slice, and the decode each operation does.
ListOps ==
    {"GetCalendar", "GetDiskSpace", "GetEpisodes", "GetEpisodeFiles", "GetAllSeries",
     "GetTags"}

DecodeOf(op, body) ==
    IF op \in ListOps THEN DecodeSlice(body)
    ELSE IF op = "GetSystemStatus" THEN DecodePointer(body)
    ELSE DecodeStruct(body)

\* The call handed a request to the transport and got a response.
GotResponse == call.out.reqs # <<>> /\ ~call.net.fail

\* C7: the status of a response never decides an operation's outcome: whatever
\* the status, the body is decoded, and the value and the error returned are
\* those of the decode of the body alone (so equal bodies give equal results
\* under any two statuses).
C7_StatusIgnored ==
    (call.op \in PublicOps /\ GotResponse) =>
        /\ Count(call.out.log, "decode") = 1
        /\ call.out.err = DecodeOf(call.op, call.net.body).err
        /\ call.out.result = DecodeOf(call.op, call.net.body).value

\* C7's case: GetAllSeries got a 500 whose body is a JSON array of two, and
\* returned the two entities and no error.
C7_Witness ==
    /\ call.op = "GetAllSeries"
    /\ GotResponse
    /\ call.net.status = 500
    /\ call.net.body.kind = "array"
    /\ Len(call.net.body.items) = 2
    /\ call.out.err = ""
    /\ call.out.result = call.net.body.items

\* The path an endpoint resolves to under a base path: the base path up to its
\* last separator, then the endpoint.
Under(basePath, endpoint) ==
    LET dir == SubSeq(basePath, 1, LastIndex(basePath, SEP))
    IN (IF dir = <<>> THEN <<SEP>> ELSE dir) \o endpoint

\* C8: on a client New constructed, DeleteSeries(id, deleteFiles) with id > 0
\* sends exactly one request: DELETE of series/{id} under the base address,
\* whose query holds apikey, and deleteFiles=true when deleteFiles is true and
\* no deleteFiles at all when it is false; a JSON object in the response is
\* returned as the one Series, with its id.
C8_DeleteSeriesRequest ==
    (call.op = "DeleteSeries" /\ call.arg.id > 0 /\ Usable) =>
        /\ Len(call.out.reqs) = 1
        /\ LET req == call.out.reqs[1]
           IN /\ req.method = "DELETE"
              /\ req.url.host = client.baseURL.host
              /\ req.url.path =
                    Under(client.baseURL.path, <<"series", SEP, Itoa(call.arg.id)>>)
              /\ HasSuffix(client.baseURL.path, SEP) =>
                    req.url.path =
                        client.baseURL.path \o <<"series", SEP, Itoa(call.arg.id)>>
              /\ Query(req.url) =
                    IF call.arg.flag
                    THEN [k \in {"apikey", "deleteFiles"} |->
                             IF k = "apikey" THEN <<client.apiKey>> ELSE <<"true">>]
                    ELSE [k \in {"apikey"} |-> <<client.apiKey>>]
              /\ req.body = NoBody
        /\ (~call.net.fail /\ call.net.body.kind = "object") =>
              /\ call.out.err = ""
              /\ call.out.result = call.net.body.items
              /\ Len(call.out.result) = 1

\* C8's case: DeleteSeries(2, true) on "http://h/api" sent its request to
\* /api/series/2 and returned the Series of the response.
C8_Witness ==
    /\ newArgs.apiURL = <<ORIGIN, SEP, "api">>
    /\ call.op = "DeleteSeries"
    /\ call.arg.id = 2
    /\ call.arg.flag
    /\ Len(call.out.reqs) = 1
    /\ call.out.reqs[1].url.path = <<SEP, "api", SEP, "series", SEP, "2">>
    /\ call.net.body.kind = "object"
    /\ Len(call.out.result) = 1
    /\ call.out.result[1].id = 2

\* C9: on a client New constructed, GetCalendar(start, end) sends GET calendar
\* whose query holds start exactly when start is not empty, end exactly when
\* end is not empty, and always apikey; a JSON array of n elements is returned
\* as n entries in the order of the array.
C9_CalendarRequest ==
    (call.op = "GetCalendar" /\ Usable) =>
        /\ Len(call.out.reqs) = 1
        /\ LET req == call.out.reqs[1]
               q == Query(req.url)
           IN /\ req.method = "GET"
              /\ req.url.path = Under(client.baseURL.path, <<"calendar">>)
              /\ DOMAIN q = {"apikey"}
                            \cup (IF call.arg.start # "" THEN {"start"} ELSE {})
                            \cup (IF call.arg.end # "" THEN {"end"} ELSE {})
              /\ q["apikey"] = <<client.apiKey>>
              /\ call.arg.start # "" => q["start"] = <<call.arg.start>>
              /\ call.arg.end # "" => q["end"] = <<call.arg.end>>
        /\ (~call.net.fail /\ call.net.body.kind = "array") =>
              /\ call.out.err = ""
              /\ Len(call.out.result) = Len(call.net.body.items)
              /\ \A i \in 1..Len(call.out.result) :
                    call.out.result[i] = call.net.body.items[i]

\* C9's case: GetCalendar("", "") sent only apikey and returned the two
\* entries of the response, ids 2 and 1, in that order.
C9_Witness ==
    /\ Usable
    /\ call.op = "GetCalendar"
    /\ call.arg.start = ""
    /\ call.arg.end = ""
    /\ Len(call.out.reqs) = 1
    /\ call.out.reqs[1].url.rawQuery = <<"apikey", EQ, "k1">>
    /\ Len(call.out.result) = 2
    /\ call.out.result[1].id = 2
    /\ call.out.result[2].id = 1

\* C10: a call of a public operation hands at most one request to the
\* transport; a transport failure or a decode failure is the error the call
\* returns, after that one request, and the call then returns.
C10_SingleExchange ==
    call.op \in PublicOps =>
        /\ Len(call.out.reqs) <= 1
        /\ Count(call.out.log, "do") = Len(call.out.reqs)
        /\ ~call.out.panic => call.out.log[Len(call.out.log)] = "return"
        /\ (call.out.reqs # <<>> /\ call.net.fail) =>
              /\ call.out.err = "transport failure"
              /\ Len(call.out.reqs) = 1
        /\ (GotResponse /\ DecodeOf(call.op, call.net.body).err # "") =>
              /\ call.out.err = DecodeOf(call.op, call.net.body).err
              /\ Len(call.out.reqs) = 1

\* C10's case: the transport failed under GetAllSeries, which returned that
\* failure after its one request.
C10_Witness ==
    /\ call.op = "GetAllSeries"
    /\ call.net.fail
    /\ Len(call.out.reqs) = 1
    /\ call.out.err = "transport failure"
    /\ call.out.log = <<"do", "return">>

\* The one PUT of an update: to series/{id} resp. episode/{id} under the base
\* address, with the whole entity as its body.
UpdateSendsPut ==
    /\ Len(call.out.reqs) = 1
    /\ call.out.reqs[1].method = "PUT"
    /\ call.out.reqs[1].url.path =
          Under(client.baseURL.path,
                <<IF call.op = "UpdateSeries" THEN "series" ELSE "episode", SEP,
                  Itoa(call.arg.entity.id)>>)
    /\ call.out.reqs[1].body = [kind |-> "object", items |-> <<call.arg.entity>>]

\* C12 as stated: UpdateSeries and UpdateEpisode send one PUT for any entity.
C12_Original ==
    (call.op \in {"UpdateSeries", "UpdateEpisode"} /\ Usable) => UpdateSendsPut

\* C12, amended: UpdateSeries and UpdateEpisode do not check the entity's
\* identifier: on a client New constructed, for any entity that serializes,
\* also one whose id is zero or negative, they send one PUT to series/{id}
\* resp. episode/{id} with the whole entity as JSON body and return no
\* validation error (an entity that does not serialize is refused before any
\* request, whatever its id); the Get-by-id and Delete operations send nothing
\* for an id <= 0.
C12_UpdateUnvalidated ==
    /\ (call.op \in {"UpdateSeries", "UpdateEpisode"} /\ Usable) =>
          /\ Marshal(call.arg.entity).err = "" =>
                /\ UpdateSendsPut
                /\ call.out.err \notin {ValidationError(op) : op \in ValidatingOps}
          /\ Marshal(call.arg.entity).err # "" =>
                /\ call.out.reqs = <<>>
                /\ call.out.err = Marshal(call.arg.entity).err
    /\ (call.op \in ValidatingOps /\ call.arg.id <= 0) => call.out.reqs = <<>>

\* C12's case: UpdateSeries of an entity with id -1 on "http://h/api" sent
\* its PUT to /api/series/-1.
C12_Witness ==
    /\ newArgs.apiURL = <<ORIGIN, SEP, "api">>
    /\ call.op = "UpdateSeries"
    /\ call.arg.entity.id = -1
    /\ Len(call.out.reqs) = 1
    /\ call.out.reqs[1].method = "PUT"
    /\ call.out.reqs[1].url.path = <<SEP, "api", SEP, "series", SEP, "-1">>
    /\ call.out.reqs[1].body.items = <<call.arg.entity>>

\* The client as New returned it.
Constructed == New(newArgs.apiURL, newArgs.apiKey).s

\* C11: no operation changes the client: after any sequence or interleaving
\* of calls of one or several concurrent callers, failed or not, the stored
\* base address and key are those New stored, and the request of every call
\* is the one its operation and arguments give on the client as constructed,
\* so two calls with the same arguments send the same request whatever
\* happened before or happens beside them.
C11_ClientUnchanged ==
    constructed =>
        /\ client = Constructed
        /\ \A c \in Callers :
              calls[c].pc \in {"sent", "done"} =>
                  calls[c].reqs = Built(calls[c].op, Constructed, calls[c].arg).reqs
        /\ \A c, d \in Callers :
              (/\ calls[c].pc \in {"sent", "done"}
               /\ calls[d].pc \in {"sent", "done"}
               /\ calls[c].op = calls[d].op
               /\ calls[c].arg = calls[d].arg) => calls[c].reqs = calls[d].reqs

\* C11's case: GetSeries(1) of one caller is under way while another caller's
\* GetSeries(1) has failed in the transport; both sent the same request, and
\* the client is as constructed.
C11_Witness ==
    /\ Usable
    /\ client = Constructed
    /\ \E c, d \in Callers :
          /\ c # d
          /\ calls[c].pc = "sent"
          /\ calls[c].op = "GetSeries"
          /\ calls[d].pc = "done"
          /\ calls[d].op = "GetSeries"
          /\ calls[d].err = "transport failure"
          /\ Len(calls[c].reqs) = 1
          /\ calls[c].reqs = calls[d].reqs

====
